---- MODULE Spec2Model ----
(***************************************************************************)
(* A model of transcribe.py: the command-line entry point main(), the      *)
(* environment preparation setup_ffmpeg() and the operation transcribe().  *)
(*                                                                         *)
(* One process runs main() once, start to finish.  The filesystem outlives *)
(* the process, so a later process (a re-run) sees the files written by    *)
(* the earlier ones; a re-run is the same command line in the same ambient *)
(* environment.  The speech-recognition library, the helper library that   *)
(* locates the decoder and the filesystem are collaborators: each call on  *)
(* them either returns or raises, chosen nondeterministically.             *)
(* The whisper package itself is taken to be installed (the "Setup" of the *)
(* module docstring), so `import whisper` does not raise.                  *)
(*                                                                         *)
(* Strings the program takes apart (file names, transcript text) are       *)
(* sequences of one-character strings; strings it only passes around are   *)
(* TLA+ strings.  An optional value (Python's None or a value) is <<>> or  *)
(* <<v>>.                                                                  *)
(***************************************************************************)
EXTENDS Integers, Sequences, FiniteSets, TLC

VARIABLES
    pc,          \* position of the process in main()/transcribe()
    argv,        \* the command line of the process
    args,        \* the argparse namespace, NoArgs before parsing
    ambient,     \* os.environ["PATH"] as the process found it
    envPath,     \* os.environ["PATH"]: <<>> when unset, <<dirs>> when set
    helper,      \* what the imageio_ffmpeg helper did, "" before it is asked
    resolved,    \* the directory imageio_ffmpeg resolved, <<>> when none
    stdout,      \* the messages printed so far
    events,      \* the calls made so far, in order
    loadCalls,   \* the arguments of each whisper.load_model call
    inferCalls,  \* the arguments of each Model.transcribe call
    result,      \* the text of the model's result, <<>> before inference
    ret,         \* the value transcribe() returned, <<>> when it has not
    err,         \* the exception that ended the process, NoErr when none
    files,       \* the filesystem's regular files: path -> content
    before,      \* the files as they were when this process started
    runs         \* the number of processes started so far

vars == <<pc, argv, args, ambient, envPath, helper, resolved, stdout, events,
          loadCalls, inferCalls, result, ret, err, files, before, runs>>

----------------------------------------------------------------------------
(* Bounds *)

MaxTextLen == 3
MaxRuns == 2

----------------------------------------------------------------------------
(* Values *)

None == <<>>
Some(v) == <<v>>
Optional(S) == {None} \cup {Some(v) : v \in S}

\* The characters of a transcript; " " stands for the whitespace str.strip()
\* removes.
TextChars == {" ", "a"}
Whitespace == {" "}
Texts == UNION {[1..n -> TextChars] : n \in 0..MaxTextLen}

\* Line 88 with a sixth choice.
Choices_WithHuge == {"tiny", "base", "small", "medium", "large", "huge"}

\* Lines 87-88: the default and the choices of -m/--model.
Choices == {"tiny", "base", "small", "medium", "large"}
DefaultModel == "base"

\* The option values tried on the command line.
ModelArgs == {"large", "huge", ""}
OutputDirArgs == {"", "out", "gone"}
LanguageArgs == {"en"}

Path(d, n) == [dir |-> d, name |-> n]

\* The directories that exist; "gone" names one that does not.
ExistingDirs == {".", "in", "out"}

\* The regular files present before the first run.
AudioFiles ==
    { Path("in", <<"t", ".", "m">>),
      Path("in", <<"t", ".", "w">>),
      Path("in", <<"t">>),
      Path("in", <<".", "m">>),
      Path("in", <<"t", ".", "m", ".", "w">>) }

\* A path that is a directory, not a file.
DirEntries == { Path("in", <<"t", ".", "d">>) }

\* A path at which nothing exists.
AbsentPaths == { Path("in", <<"n", ".", "m">>) }

AudioArgs == AudioFiles \cup DirEntries \cup AbsentPaths

\* A command line: the audio path and the options, each given or not.
CommandLines ==
    [audio : AudioArgs, model : Optional(ModelArgs),
     output_dir : Optional(OutputDirArgs), language : Optional(LanguageArgs)]

AudioBytes == <<"#">>

\* What `import imageio_ffmpeg; imageio_ffmpeg.get_ffmpeg_exe()` can do:
\* the import fails, the call finds no executable and raises, or the call
\* returns an executable in FfmpegDir.
HelperOutcomes == {"not_installed", "no_exe", "found"}
FfmpegDir == "ffbin"
AmbientPaths == {None, Some(<<"bin">>)}

NoArgs == [parsed |-> FALSE]
NoErr == [type |-> "", at |-> ""]
Error(t, a) == [type |-> t, at |-> a]

----------------------------------------------------------------------------
(* Pure helpers *)

\* str.strip(): leading and trailing whitespace removed.
RECURSIVE LStrip(_)
LStrip(t) ==
    IF t # <<>> /\ Head(t) \in Whitespace THEN LStrip(Tail(t)) ELSE t

RECURSIVE RStrip(_)
RStrip(t) ==
    IF t # <<>> /\ t[Len(t)] \in Whitespace
    THEN RStrip(SubSeq(t, 1, Len(t) - 1))
    ELSE t

\* str.lstrip() in place of str.strip().
Strip_LeadingOnly(t) == LStrip(t)

Strip(t) == RStrip(LStrip(t))

\* str.rfind("."): the last index of a dot, 0 when there is none.
RFindDot(n) ==
    LET dots == {i \in 1..Len(n) : n[i] = "."}
    IN  IF dots = {} THEN 0 ELSE CHOOSE i \in dots : \A j \in dots : j <= i

\* The name cut at its first dot instead of its last.
Stem_FirstDot(n) ==
    LET dots == {i \in 2..Len(n) - 1 : n[i] = "."}
    IN  IF dots = {} THEN n
        ELSE SubSeq(n, 1, (CHOOSE i \in dots : \A j \in dots : i <= j) - 1)

\* PurePath.stem: the name up to its last dot, when that dot is neither the
\* first nor the last character; the whole name otherwise.
Stem(n) ==
    LET i == RFindDot(n)
    IN  IF 1 < i /\ i < Len(n) THEN SubSeq(n, 1, i - 1) ELSE n

\* The existence check left out.
Exists_Always(p, fs) == TRUE

\* Path.exists(): something is at the path, a file or a directory.
Exists(p, fs) == p \in DOMAIN fs \/ p \in DirEntries

\* Path(output_dir): the empty string is the current directory.
PathOf(s) == IF s = "" THEN "." ELSE s

\* Python truthiness of an optional string: None and "" are false.
Truthy(o) == o # None /\ o[1] # ""

\* Line 63: Path(output_dir) if output_dir else audio_path.parent
OutputDir(a) ==
    IF Truthy(a.output_dir) THEN PathOf(a.output_dir[1]) ELSE a.audio.dir

\* Line 64: output_dir / f"{audio_path.stem}_transcript.txt"
OutputPath(a) == Path(OutputDir(a), Stem(a.audio.name) \o <<"_transcript.txt">>)

\* open(path, "a"): the data is appended to what the file held.
WriteText_Append(fs, p, data) ==
    [q \in DOMAIN fs \cup {p} |->
        IF q # p THEN fs[q] ELSE IF p \in DOMAIN fs THEN fs[p] \o data ELSE data]

\* An existing file is kept as it is.
WriteText_KeepExisting(fs, p, data) ==
    [q \in DOMAIN fs \cup {p} |->
        IF q = p /\ p \notin DOMAIN fs THEN data ELSE fs[q]]

\* open(path, "w") then write(data): the file is created or truncated and
\* holds data, whatever it held before.
WriteText(fs, p, data) ==
    [q \in DOMAIN fs \cup {p} |-> IF q = p THEN data ELSE fs[q]]

\* The stripped text returned.
ReturnValue_Stripped(text) == Strip(text)

\* Line 70: return result["text"]
ReturnValue(text) == text

\* No except clause.
Caught_Nothing(e) == FALSE

\* The except clause of setup_ffmpeg catches ImportError only.
Caught(e) == e = "ImportError"

\* The search path left as it was.
Prepend_Dropped(d, path) == path

\* Line 25: str(ffmpeg_path) + os.pathsep + os.environ["PATH"]
Prepend(d, path) == <<d>> \o path

----------------------------------------------------------------------------
(* The process *)

Init ==
    /\ pc = "start"
    /\ argv \in CommandLines
    /\ args = NoArgs
    /\ ambient \in AmbientPaths
    /\ envPath = ambient
    /\ helper = ""
    /\ resolved = None
    /\ stdout = <<>>
    /\ events = <<>>
    /\ loadCalls = <<>>
    /\ inferCalls = <<>>
    /\ result = None
    /\ ret = None
    /\ err = NoErr
    /\ files = [p \in AudioFiles |-> AudioBytes]
    /\ before = files
    /\ runs = 1

\* An exception nothing catches ends the process.
Fail(e) ==
    /\ pc' = "failed"
    /\ err' = e

\* Lines 74-94: parser.parse_args().  A --model outside the choices makes
\* argparse exit with status 2 before a namespace exists.
ParseArgs ==
    /\ pc = "start"
    /\ events' = Append(events, "parse_args")
    /\ IF argv.model # None /\ argv.model[1] \notin Choices
       THEN /\ Fail(Error("SystemExit", "parse_args"))
            /\ UNCHANGED args
       ELSE /\ args' = [parsed |-> TRUE,
                        audio |-> argv.audio,
                        model |-> IF argv.model = None THEN DefaultModel
                                  ELSE argv.model[1],
                        output_dir |-> argv.output_dir,
                        language |-> argv.language]
            /\ pc' = "parsed"
            /\ UNCHANGED err
    /\ UNCHANGED <<argv, ambient, envPath, helper, resolved, stdout, loadCalls,
                   inferCalls, result, ret, files, before, runs>>

\* The exception the try body of setup_ffmpeg raises, "" when it completes.
SetupRaises(h, path) ==
    CASE h = "not_installed" -> "ImportError"
      [] h = "no_exe" -> "RuntimeError"
      [] h = "found" /\ path = None -> "KeyError"
      [] OTHER -> ""

\* Lines 20-28 and 97: setup_ffmpeg().
SetupFfmpeg ==
    /\ pc = "parsed"
    /\ events' = Append(events, "setup_ffmpeg")
    /\ \E h \in HelperOutcomes :
          LET e == SetupRaises(h, envPath) IN
          /\ helper' = h
          /\ resolved' = IF h = "found" THEN Some(FfmpegDir) ELSE None
          /\ IF e = ""
             THEN /\ envPath' = Some(Prepend(FfmpegDir, envPath[1]))
                  /\ stdout' = Append(stdout, "Using ffmpeg from")
                  /\ pc' = "setup_done"
                  /\ UNCHANGED err
             ELSE IF Caught(e)
             THEN /\ stdout' = Append(stdout, "Warning")
                  /\ pc' = "setup_done"
                  /\ UNCHANGED <<envPath, err>>
             ELSE /\ Fail(Error(e, "setup_ffmpeg"))
                  /\ UNCHANGED <<envPath, stdout>>
    /\ UNCHANGED <<argv, args, ambient, loadCalls, inferCalls, result, ret,
                   files, before, runs>>

\* Lines 99 and 50-54: transcribe() is entered and checks the audio path.
CheckAudio ==
    /\ pc = "setup_done"
    /\ events' = Append(events, "transcribe")
    /\ IF Exists(args.audio, files)
       THEN pc' = "checked" /\ UNCHANGED err
       ELSE Fail(Error("FileNotFoundError", "transcribe"))
    /\ UNCHANGED <<argv, args, ambient, envPath, helper, resolved, stdout,
                   loadCalls, inferCalls, result, ret, files, before, runs>>

\* Lines 56-57: whisper.load_model(model_name), which may raise.
LoadModel ==
    /\ pc = "checked"
    /\ events' = Append(events, "load_model")
    /\ stdout' = Append(stdout, "Loading")
    /\ loadCalls' = Append(loadCalls, args.model)
    /\ \/ pc' = "loaded" /\ UNCHANGED err
       \/ Fail(Error("LoadError", "load_model"))
    /\ UNCHANGED <<argv, args, ambient, envPath, helper, resolved, inferCalls,
                   result, ret, files, before, runs>>

\* Lines 59-60: model.transcribe(str(audio_path), language=language), which
\* returns a result with some text or raises (or is interrupted).
Inference ==
    /\ pc = "loaded"
    /\ events' = Append(events, "model.transcribe")
    /\ stdout' = Append(stdout, "Transcribing")
    /\ inferCalls' = Append(inferCalls,
                            [path |-> args.audio, language |-> args.language,
                             searchPath |-> envPath])
    /\ \/ /\ \E t \in Texts : result' = Some(t)
          /\ pc' = "inferred"
          /\ UNCHANGED err
       \/ /\ Fail(Error("InferenceError", "model.transcribe"))
          /\ UNCHANGED result
    /\ UNCHANGED <<argv, args, ambient, envPath, helper, resolved, loadCalls,
                   ret, files, before, runs>>

\* Lines 62-70: the output path, write_text, the last print and the return.
\* write_text opens the file for writing (which fails when the directory
\* does not exist or refuses the write, and then changes nothing), writes
\* (a failure here leaves the file with some prefix of the data) and closes.
WriteTranscript ==
    /\ pc = "inferred"
    /\ events' = Append(events, "write_text")
    /\ LET out == OutputPath(args)
           data == Strip(result[1])
       IN  IF out.dir \notin ExistingDirs
           THEN /\ Fail(Error("FileNotFoundError", "open"))
                /\ UNCHANGED <<files, stdout, ret>>
           ELSE \/ /\ Fail(Error("OSError", "open"))
                   /\ UNCHANGED <<files, stdout, ret>>
                \/ /\ \E k \in 0..Len(data) :
                         files' = WriteText(files, out, SubSeq(data, 1, k))
                   /\ Fail(Error("OSError", "write"))
                   /\ UNCHANGED <<stdout, ret>>
                \/ /\ files' = WriteText(files, out, data)
                   /\ stdout' = Append(stdout, "Saved to")
                   /\ ret' = Some(ReturnValue(result[1]))
                   /\ pc' = "returned"
                   /\ UNCHANGED err
    /\ UNCHANGED <<argv, args, ambient, envPath, helper, resolved, loadCalls,
                   inferCalls, result, before, runs>>

\* The process has ended; the same command line is run again in a new
\* process, which starts from the ambient environment and the files as they
\* now are.
Rerun ==
    /\ pc \in {"returned", "failed"}
    /\ runs < MaxRuns
    /\ runs' = runs + 1
    /\ pc' = "start"
    /\ args' = NoArgs
    /\ envPath' = ambient
    /\ helper' = ""
    /\ resolved' = None
    /\ stdout' = <<>>
    /\ events' = <<>>
    /\ loadCalls' = <<>>
    /\ inferCalls' = <<>>
    /\ result' = None
    /\ ret' = None
    /\ err' = NoErr
    /\ before' = files
    /\ UNCHANGED <<argv, ambient, files>>

Next ==
    \/ ParseArgs
    \/ SetupFfmpeg
    \/ CheckAudio
    \/ LoadModel
    \/ Inference
    \/ WriteTranscript
    \/ Rerun

Spec == Init /\ [][Next]_vars

----------------------------------------------------------------------------
(* What the properties are stated in *)

Range(q) == {q[i] : i \in 1..Len(q)}
IsPrefix(q, r) == Len(q) <= Len(r) /\ q = SubSeq(r, 1, Len(q))

Succeeded == pc = "returned"
Failed == pc = "failed"
Final == Succeeded \/ Failed

\* t is i characters of whitespace, a middle, and j characters of
\* whitespace, and the middle neither starts nor ends with whitespace.
StripsTo(t, i, j) ==
    /\ i + j <= Len(t)
    /\ \A k \in 1..i : t[k] \in Whitespace
    /\ \A k \in (Len(t) - j + 1)..Len(t) : t[k] \in Whitespace
    /\ i + j < Len(t) => t[i + 1] \notin Whitespace /\ t[Len(t) - j] \notin Whitespace

\* c is t without its leading and trailing whitespace.
IsStripOf(c, t) ==
    \E i, j \in 0..Len(t) :
        StripsTo(t, i, j) /\ c = SubSeq(t, i + 1, Len(t) - j)

\* c is an initial part of t without its leading and trailing whitespace.
IsPrefixOfStrip(c, t) ==
    \E i, j \in 0..Len(t) :
        StripsTo(t, i, j) /\ IsPrefix(c, SubSeq(t, i + 1, Len(t) - j))

\* The final extension of a name starts at a dot that is neither its first
\* nor its last character and has no dot after it.
ExtensionAt(n, i) ==
    /\ 1 < i /\ i < Len(n)
    /\ n[i] = "."
    /\ \A j \in (i + 1)..Len(n) : n[j] # "."

\* s is the name n without its final extension, n itself when it has none.
IsStemOf(s, n) ==
    IF \E i \in 1..Len(n) : ExtensionAt(n, i)
    THEN \E i \in 1..Len(n) : ExtensionAt(n, i) /\ s = SubSeq(n, 1, i - 1)
    ELSE s = n

TranscriptName(s) == s \o <<"_transcript.txt">>

\* The path the command line's transcript goes to.
TheOutput == OutputPath([audio |-> argv.audio, output_dir |-> argv.output_dir])

\* Every file but p is as it was when the process started.
OthersUntouched(p) ==
    /\ DOMAIN files \ {p} = DOMAIN before \ {p}
    /\ \A q \in DOMAIN files \ {p} : files[q] = before[q]

\* The one file the run created or modified is <d>/<stem of n>_transcript.txt.
WrittenAt(d, n) ==
    \E k \in 0..Len(n) :
        /\ IsStemOf(SubSeq(n, 1, k), n)
        /\ Path(d, TranscriptName(SubSeq(n, 1, k))) \in DOMAIN files
        /\ OthersUntouched(Path(d, TranscriptName(SubSeq(n, 1, k))))

WriteSucceeds == pc' = "returned" /\ WriteTranscript

MainOrder ==
    <<"parse_args", "setup_ffmpeg", "transcribe", "load_model",
      "model.transcribe", "write_text">>

----------------------------------------------------------------------------
(* C1 *)

\* C1: when nothing exists at audio_path, transcribe() fails with the
\* file-not-found error before the model is loaded: there is no load_model
\* call, no Model.transcribe call, and no file is created or modified.
C1_MissingAudioFailsBeforeLoad ==
    (argv.audio \notin DOMAIN before /\ argv.audio \notin DirEntries) =>
        /\ loadCalls = <<>>
        /\ inferCalls = <<>>
        /\ files = before
        /\ "transcribe" \in Range(events) =>
              Failed /\ err = Error("FileNotFoundError", "transcribe")

C1_Witness ==
    /\ argv.audio \in AbsentPaths
    /\ Failed
    /\ err = Error("FileNotFoundError", "transcribe")

----------------------------------------------------------------------------
(* C2 *)

\* C2: after a successful transcribe() on model text T, the output file
\* holds exactly T without its leading and trailing whitespace, for every T,
\* the empty and the whitespace-only ones included.
C2_FileHoldsStrippedText ==
    Succeeded =>
        /\ TheOutput \in DOMAIN files
        /\ IsStripOf(files[TheOutput], result[1])

C2_Witness ==
    /\ Succeeded
    /\ result = Some(<<" ", "a", " ">>)
    /\ files[TheOutput] = <<"a">>

----------------------------------------------------------------------------
(* C3 *)

\* C3 as stated: a successful transcribe() writes exactly one file, at
\* <D>/<stem>_transcript.txt, where D is output_dir whenever an output_dir
\* is given and the audio file's directory whenever it is omitted.
C3_AsStated ==
    Succeeded =>
        WrittenAt(IF argv.output_dir # None THEN PathOf(argv.output_dir[1])
                  ELSE argv.audio.dir,
                  argv.audio.name)

\* C3 as amended: a successful transcribe() writes exactly one file, at
\* <D>/<stem>_transcript.txt, where the stem is the input name without its
\* final extension, D is output_dir whenever a non-empty output_dir is given
\* and the audio file's directory whenever output_dir is omitted or empty;
\* no other file is created or modified.
C3_OutputLocation ==
    Succeeded =>
        WrittenAt(IF argv.output_dir \notin {None, Some("")}
                  THEN argv.output_dir[1]
                  ELSE argv.audio.dir,
                  argv.audio.name)

C3_Witness ==
    /\ Succeeded
    /\ argv.output_dir = Some("")
    /\ argv.audio.name = <<"t", ".", "m", ".", "w">>
    /\ Path("in", <<"t", ".", "m", "_transcript.txt">>) \in DOMAIN files

----------------------------------------------------------------------------
(* C4 *)

\* C4 as stated: in every final state either the run succeeded and the output
\* file holds the new transcript, or the run failed and no output file
\* exists at that path.
C4_AsStated ==
    Final =>
        \/ /\ Succeeded
           /\ TheOutput \in DOMAIN files
           /\ IsStripOf(files[TheOutput], result[1])
        \/ /\ Failed
           /\ TheOutput \notin DOMAIN files

\* C4 as amended: in every final state either the run succeeded and the
\* output file holds the new transcript; or the run failed before write_text
\* had opened the output file, and then every file is as it was before the
\* run (an output file of an earlier run is still there, unchanged); or the
\* write failed after the file was opened, and then the output file holds a
\* prefix of the new transcript and every other file is as it was.
C4_AllOrNothing ==
    Final =>
        \/ /\ Succeeded
           /\ TheOutput \in DOMAIN files
           /\ IsStripOf(files[TheOutput], result[1])
        \/ /\ Failed
           /\ err.at # "write"
           /\ files = before
        \/ /\ Failed
           /\ err.at = "write"
           /\ TheOutput \in DOMAIN files
           /\ IsPrefixOfStrip(files[TheOutput], result[1])
           /\ OthersUntouched(TheOutput)

C4_Witness ==
    /\ Failed
    /\ err.at = "load_model"
    /\ runs > 1
    /\ TheOutput \in DOMAIN files

----------------------------------------------------------------------------
(* C5 *)

\* C5 as stated: whenever the helper library or the executable location it
\* reports is unavailable, setup_ffmpeg() raises no error, prints a warning,
\* leaves the search path unchanged, and the run goes on to transcription.
C5_AsStated ==
    helper \in {"not_installed", "no_exe"} =>
        /\ err.at # "setup_ffmpeg"
        /\ "Warning" \in Range(stdout)
        /\ envPath = ambient
        /\ pc = "setup_done" => ENABLED CheckAudio

\* C5 as amended: whenever the helper library cannot be imported,
\* setup_ffmpeg() raises no error, prints a warning, leaves the search path
\* unchanged, and the run goes on to transcription.
C5_SoftDependency ==
    helper = "not_installed" =>
        /\ err.at # "setup_ffmpeg"
        /\ "Warning" \in Range(stdout)
        /\ envPath = ambient
        /\ pc = "setup_done" => ENABLED CheckAudio

C5_Witness ==
    /\ helper = "not_installed"
    /\ "transcribe" \in Range(events)
    /\ envPath = ambient

----------------------------------------------------------------------------
(* C6 *)

----------------------------------------------------------------------------
(* C7 *)

\* C7: a -m/--model value outside tiny, base, small, medium, large is
\* rejected when the arguments are parsed: the run ends in an error with no
\* load_model call, no Model.transcribe call and no file written; with -m
\* omitted the model loaded is "base".
C7_ModelChoices ==
    /\ ( /\ argv.model # None
         /\ argv.model[1] \notin {"tiny", "base", "small", "medium", "large"}
         /\ events # <<>> ) =>
            /\ Failed
            /\ err = Error("SystemExit", "parse_args")
            /\ loadCalls = <<>>
            /\ inferCalls = <<>>
            /\ files = before
    /\ argv.model = None => \A i \in 1..Len(loadCalls) : loadCalls[i] = "base"

C7_Witness ==
    /\ argv.model = Some("huge")
    /\ Failed
    /\ err.at = "parse_args"

----------------------------------------------------------------------------
(* C8 *)

\* C8: a run whose output file already exists does not fail on that account
\* and overwrites it: when it returns, the file holds exactly the stripped
\* text of this run, and a run on the text the file already holds leaves
\* every file as it was.
C8_RerunOverwrites ==
    /\ (Succeeded /\ TheOutput \in DOMAIN before) =>
          /\ IsStripOf(files[TheOutput], result[1])
          /\ IsStripOf(before[TheOutput], result[1]) => files = before
    /\ ( /\ pc = "inferred"
         /\ TheOutput \in DOMAIN files
         /\ TheOutput.dir \in ExistingDirs ) => ENABLED WriteSucceeds

C8_Witness ==
    /\ Succeeded
    /\ runs > 1
    /\ TheOutput \in DOMAIN before
    /\ before[TheOutput] = <<"a", "a">>
    /\ files[TheOutput] = <<"a">>

----------------------------------------------------------------------------
(* C9 *)

\* C9: a successful transcribe() returns the model's text unmodified, so the
\* file holds the stripped return value, and the two differ exactly when the
\* text starts or ends with whitespace.
C9_ReturnsUntrimmed ==
    Succeeded =>
        /\ ret = Some(result[1])
        /\ IsStripOf(files[TheOutput], ret[1])
        /\ files[TheOutput] # ret[1] <=>
              /\ ret[1] # <<>>
              /\ ret[1][1] \in Whitespace \/ ret[1][Len(ret[1])] \in Whitespace

C9_Witness ==
    /\ Succeeded
    /\ ret = Some(<<"a", " ">>)
    /\ files[TheOutput] = <<"a">>

----------------------------------------------------------------------------
(* C10 *)

\* C10: when audio_path is not an existing file (nothing is there, or a
\* directory is), transcribe() fails with the file-not-found error and
\* load_model is never called.
C10_AsStated ==
    argv.audio \notin DOMAIN before =>
        /\ loadCalls = <<>>
        /\ "transcribe" \in Range(events) =>
              Failed /\ err = Error("FileNotFoundError", "transcribe")

====
